---- MODULE Spec2Model ----
(***************************************************************************)
(* The workflow activation coordinator of a session view: the React hook   *)
(* useWorkflowManagement (selection, pending / queued / active workflow,   *)
(* the two remote calls of an activation and its settle delay), together   *)
(* with the parent's renders that hand it the session phase.               *)
(*                                                                         *)
(* JavaScript runs the code between two awaits without interruption, so    *)
(* every action below is one such stretch of a handler or a continuation.  *)
(***************************************************************************)
EXTENDS Integers, Sequences, FiniteSets, TLC

\* How many activateWorkflow invocations one behaviour may start.
MaxCalls == 2

(***************************************************************************)
(* Values                                                                  *)
(***************************************************************************)
\* null / undefined of an object-valued slot, and of a string-valued one.
Null == [id |-> "<null>", gitUrl |-> "", branch |-> "", path |-> "", enabled |-> FALSE]
NullId == "<null>"
Absent == "<absent>"
NoBody == [type |-> "<none>", gitUrl |-> "", branch |-> "", path |-> ""]

Research == [id |-> "research", gitUrl |-> "g", branch |-> "main", path |-> "", enabled |-> TRUE]
Draft == [id |-> "draft", gitUrl |-> "gD", branch |-> "main", path |-> "wf", enabled |-> FALSE]
ResearchOff == [id |-> "research", gitUrl |-> "gOld", branch |-> "main", path |-> "", enabled |-> FALSE]
\* A catalog entry that carries the id of the "no workflow" selector value.
NoneEntry == [id |-> "none", gitUrl |-> "gN", branch |-> "main", path |-> "", enabled |-> TRUE]

\* The catalogs a caller may pass to handleWorkflowChange.
Catalogs == {<< >>, <<NoneEntry, Draft, Research>>, <<ResearchOff, Research>>}
\* The selector values a caller may pass.
Values == {"none", "custom", "research"}
\* The calls of handleWorkflowChange: "custom" does not look at the catalog, so
\* one catalog stands for all.
Selections == {sel \in Values \X Catalogs : sel[1] = "custom" => sel[2] = << >>}
\* The explicit workflow arguments of activateWorkflow (Null: none given).
WorkflowArgs == {Null, Research}
\* The explicit phase arguments of activateWorkflow (Absent: none given).
PhaseArgs == {Absent, "", "Running", "Creating", "Stopped"}
\* The session phases the parent may pass as the sessionPhase prop.
PhaseProps == {Absent, "Running"}
\* The phases of a session from its creation to its end.
SessionPhases == {Absent, "Pending", "Creating", "Running", "Stopped"}
\* The arguments of setCustomWorkflow.
CustomArgs == {<<"gC", "", "">>}
\* The arguments of setCustomWorkflow with a branch and a path given or left out.
CustomInputs == {<<"gC", "", Absent>>, <<"gC", "", "">>, <<"gC", "dev", "wf">>}

\* a || b on strings: the empty string and undefined are falsy.
OrStr(a, b) == IF a = "" \/ a = Absent THEN b ELSE a
\* a || b on objects: only null / undefined is falsy.
OrObj(a, b) == IF a = Null THEN b ELSE a

\* Array.prototype.find(w => w.id === value): the first match, or undefined.
Find(cat, value) ==
    LET hits == {i \in 1..Len(cat) : cat[i].id = value}
    IN IF hits = {} THEN Null
       ELSE cat[CHOOSE i \in hits : \A j \in hits : i <= j]

VARIABLES
    selectedWorkflow,    \* useState<string>("none")
    pendingWorkflow,     \* useState<WorkflowConfig | null>(null)
    queuedWorkflow,      \* useState<WorkflowConfig | null>(null)
    activeWorkflow,      \* useState<string | null>(null)
    workflowActivating,  \* useState(false)
    sessionPhase,        \* the sessionPhase prop of the last render
    renderedPending,     \* the pendingWorkflow the current activateWorkflow callback closes over
    inv,                 \* the activateWorkflow invocations, in the order they started:
                         \* pc, target, the two requests sent and the status of the first
    nCalls,              \* how many invocations have started
    lastDone,            \* the invocation whose message POST returned last (0: none)
    remoteWorkflow,      \* the workflow configuration the session's backend stored last
    out,                 \* what the operation of this step returned, reported and called
    ootbCatalog,         \* the workflows the backend lists for the project
    rawCatalog,          \* what listOOTBWorkflows resolved with
    listed,              \* the data of the useOOTBWorkflows query
    mounted,             \* EditableSessionName: has the component mounted
    currentName,         \* EditableSessionName: the currentName prop
    metadataName,        \* EditableSessionName: the metadataName prop
    isEditing,           \* EditableSessionName: the edit mode
    inputValue,          \* EditableSessionName: the text of the input
    hasChanges,          \* EditableSessionName: the input differs from the name
    saveAwaiting,        \* EditableSessionName: a handleSave waits for onSave
    deliverable,         \* the name the parent stored and has not delivered yet
    lastTwo,             \* the last two things that happened to the component
    feedbackContext,     \* FeedbackModal: the session context, if any
    langfuse,            \* the feedback route: is the Langfuse client configured
    open,                \* FeedbackModal: the open prop, as onOpenChange left it
    comment,             \* FeedbackModal: the comment of the form
    includeTranscript,   \* FeedbackModal: the checkbox of the form
    isSubmitting,        \* FeedbackModal: a submission is in flight
    error,               \* FeedbackModal: the error shown
    submitPc,            \* FeedbackModal: where handleSubmit stands
    response,            \* the answer of POST /api/feedback on its way back
    scores,              \* how many scores the route sent to Langfuse
    successCalls         \* how many times onSubmitSuccess was called

coord == <<selectedWorkflow, pendingWorkflow, queuedWorkflow, activeWorkflow, workflowActivating>>
\* The state of the components around the hook.
catalog == <<ootbCatalog, rawCatalog, listed>>
nameField == <<mounted, currentName, metadataName, isEditing, inputValue, hasChanges,
               saveAwaiting, deliverable, lastTwo>>
feedback == <<feedbackContext, langfuse, open, comment, includeTranscript, isSubmitting,
              error, submitPc, response, scores, successCalls>>
others == <<catalog, nameField, feedback>>
\* The state of the hook, its invocations and the backend of the session.
hook == <<selectedWorkflow, pendingWorkflow, queuedWorkflow, activeWorkflow, workflowActivating,
          sessionPhase, renderedPending, inv, nCalls, lastDone, remoteWorkflow, out>>
vars == <<selectedWorkflow, pendingWorkflow, queuedWorkflow, activeWorkflow, workflowActivating,
          sessionPhase, renderedPending, inv, nCalls, lastDone, remoteWorkflow, out,
          ootbCatalog, rawCatalog, listed,
          mounted, currentName, metadataName, isEditing, inputValue, hasChanges,
          saveAwaiting, deliverable, lastTwo,
          feedbackContext, langfuse, open, comment, includeTranscript, isSubmitting,
          error, submitPc, response, scores, successCalls>>

Slots == 1..MaxCalls

IdleInvocation ==
    [pc |-> "idle", wf |-> Null, exit |-> "none", cfg |-> NoBody, cfgStatus |-> "none",
     msg |-> NoBody]

\* An invocation that has returned: what is kept of it is the way it returned
\* (noop, queued, ok, fail) and, where it queued or activated one, its target.
Returned(exit, workflow) ==
    [IdleInvocation EXCEPT !.pc = "returned", !.exit = exit, !.wf = workflow]

\* selected: the workflow handleWorkflowChange returned; result: what activateWorkflow
\* returned; toast: the error reported; custom, callback: onCustom and
\* onWorkflowActivated were called; posted: the body of the request sent.
NoOut ==
    [selected |-> Null, result |-> "none", toast |-> "none", custom |-> FALSE, callback |-> FALSE,
     posted |-> NoBody]

\* The components around the hook before anything happened to them.
CatalogInit ==
    /\ ootbCatalog = << >>
    /\ rawCatalog = << >>
    /\ listed = << >>

\* A missing string: the one sequence that holds no character.
Undefined == <<"undefined">>

\* EditableSessionName before it is rendered, showing a name.
NameFieldInit(names, metadataNames) ==
    /\ mounted = FALSE
    /\ currentName \in names
    /\ metadataName \in metadataNames
    /\ isEditing = FALSE
    /\ inputValue = currentName
    /\ hasChanges = FALSE
    /\ saveAwaiting = FALSE
    /\ deliverable = Undefined
    /\ lastTwo = <<"none", "none">>

\* No FeedbackContext provider surrounds the modal.
NoContext == [present |-> FALSE, username |-> "", projectName |-> "", sessionName |-> ""]

\* No response of the feedback route is on its way.
NoResponse == [ok |-> FALSE, error |-> "", recorded |-> FALSE, status |-> 0]

\* FeedbackModal and the feedback route before the modal is opened.
FeedbackInit(contexts, clients) ==
    /\ feedbackContext \in contexts
    /\ langfuse \in clients
    /\ open = FALSE
    /\ comment = ""
    /\ includeTranscript = FALSE
    /\ isSubmitting = FALSE
    /\ error = "<null>"
    /\ submitPc = "idle"
    /\ response = NoResponse
    /\ scores = 0
    /\ successCalls = 0

OthersInit ==
    /\ CatalogInit
    /\ NameFieldInit({<< >>}, {<< >>})
    /\ FeedbackInit({NoContext}, {FALSE})

\* The hook before anything happened to it, in a session without a phase.
HookIdle ==
    /\ selectedWorkflow = "none"
    /\ pendingWorkflow = Null
    /\ queuedWorkflow = Null
    /\ activeWorkflow = NullId
    /\ workflowActivating = FALSE
    /\ sessionPhase = Absent
    /\ renderedPending = Null
    /\ inv = [i \in Slots |-> IdleInvocation]
    /\ nCalls = 0
    /\ lastDone = 0
    /\ remoteWorkflow = NoBody
    /\ out = NoOut

Init ==
    /\ selectedWorkflow = "none"
    /\ pendingWorkflow = Null
    /\ queuedWorkflow = Null
    /\ activeWorkflow = NullId
    /\ workflowActivating = FALSE
    /\ sessionPhase \in PhaseProps
    /\ renderedPending = Null
    /\ inv = [i \in Slots |-> IdleInvocation]
    /\ nCalls = 0
    /\ lastDone = 0
    /\ remoteWorkflow = NoBody
    /\ OthersInit
    /\ out = NoOut

(***************************************************************************)
(* Renders                                                                 *)
(***************************************************************************)
\* A render after a state change: useCallback rebuilds activateWorkflow
\* because pendingWorkflow is among its dependencies.
Render ==
    /\ renderedPending # pendingWorkflow
    /\ renderedPending' = pendingWorkflow
    /\ UNCHANGED <<coord, others, remoteWorkflow, sessionPhase, inv, nCalls, lastDone>>
    /\ out' = NoOut

\* The parent renders the view with another session phase.
SessionPhaseChange(p) ==
    /\ p # sessionPhase
    /\ sessionPhase' = p
    /\ renderedPending' = pendingWorkflow
    /\ UNCHANGED <<coord, others, remoteWorkflow, inv, nCalls, lastDone>>
    /\ out' = NoOut

(***************************************************************************)
(* activateWorkflow                                                        *)
(***************************************************************************)
\* The pending workflow is preferred to the one passed in.
ResolveWorkflow_pendingFirst(workflowToActivate) == OrObj(renderedPending, workflowToActivate)

\* const workflow = workflowToActivate || pendingWorkflow, as the callback sees it.
ResolveWorkflow(workflowToActivate) == OrObj(workflowToActivate, renderedPending)

\* The last known phase is preferred to the one passed in.
ResolvePhase_propFirst(currentPhase) == OrStr(sessionPhase, currentPhase)

\* const phase = currentPhase || sessionPhase
ResolvePhase(currentPhase) == OrStr(currentPhase, sessionPhase)

\* Only the phases of a session that is starting defer the activation.
IsDeferred_listed(phase) == phase \in {"", Absent, "Pending", "Creating"}

\* if (!phase || phase !== "Running")
IsDeferred(phase) == phase = "" \/ phase = Absent \/ phase # "Running"

\* The body of the configuration POST.
ConfigBody(w) ==
    [type |-> "config", gitUrl |-> w.gitUrl, branch |-> w.branch, path |-> OrStr(w.path, "")]

\* The body of the message POST.
MessageBody(w) ==
    [type |-> "workflow_change", gitUrl |-> w.gitUrl, branch |-> w.branch,
     path |-> OrStr(w.path, "")]

\* The response status is not looked at.
ResponseOk_unchecked(outcome) == TRUE

\* !response.ok is false
ResponseOk(outcome) == outcome = "ok"

\* The flag is left as it is.
FinallyActivating_skipped == workflowActivating

\* finally { setWorkflowActivating(false) }
FinallyActivating == FALSE

\* The queue is left as it is.
CatchQueued_kept == queuedWorkflow

\* catch { ...; setQueuedWorkflow(null); ... }
CatchQueued == Null

\* The workflow selected at that moment becomes the active one.
SuccessActive_selected(i) == selectedWorkflow

\* The first activation that succeeded stays the active one.
SuccessActive_firstWins(i) == IF activeWorkflow # NullId THEN activeWorkflow ELSE inv[i].wf.id

\* Only the invocation that started last commits its workflow.
SuccessActive_lastStarted(i) == IF lastDone > i THEN activeWorkflow ELSE inv[i].wf.id

\* setActiveWorkflow(workflow.id)
SuccessActive(i) == inv[i].wf.id

\* A workflow that is already queued keeps its place.
DeferQueued_keepFirst(workflow) == IF queuedWorkflow # Null THEN queuedWorkflow ELSE workflow

\* setQueuedWorkflow(workflow)
DeferQueued(workflow) == workflow

\* The call itself, up to its first await or its early return.
activateWorkflow(workflowToActivate, currentPhase) ==
    /\ nCalls < MaxCalls
    /\ LET workflow == ResolveWorkflow(workflowToActivate)
           phase == ResolvePhase(currentPhase)
           k == nCalls + 1
       IN /\ nCalls' = k
          /\ IF workflow = Null
             THEN /\ inv' = [inv EXCEPT ![k] = Returned("noop", Null)]
                  /\ out' = [NoOut EXCEPT !.result = "false"]
                  /\ UNCHANGED coord
             ELSE IF IsDeferred(phase)
             THEN /\ queuedWorkflow' = DeferQueued(workflow)
                  /\ selectedWorkflow' = workflow.id
                  /\ workflowActivating' = TRUE
                  /\ inv' = [inv EXCEPT ![k] = Returned("queued", workflow)]
                  /\ out' = [NoOut EXCEPT !.result = "true"]
                  /\ UNCHANGED <<pendingWorkflow, activeWorkflow>>
             ELSE /\ workflowActivating' = TRUE
                  /\ inv' = [inv EXCEPT ![k] = [IdleInvocation EXCEPT
                              !.pc = "config", !.wf = workflow, !.cfg = ConfigBody(workflow)]]
                  /\ out' = [NoOut EXCEPT !.posted = ConfigBody(workflow)]
                  /\ UNCHANGED <<selectedWorkflow, pendingWorkflow, queuedWorkflow, activeWorkflow>>
    /\ UNCHANGED <<others, remoteWorkflow, sessionPhase, renderedPending, lastDone>>

\* The error is not caught: the promise rejects, nothing is reported and only
\* the finally block runs.
CatchFinally_uncaught(i, message) ==
    /\ inv' = [inv EXCEPT ![i] = Returned("fail", Null)]
    /\ out' = NoOut
    /\ workflowActivating' = FinallyActivating
    /\ UNCHANGED <<selectedWorkflow, pendingWorkflow, queuedWorkflow, activeWorkflow>>

\* The catch block followed by the finally block: the error is reported and
\* the invocation returns false.
CatchFinally(i, message) ==
    /\ inv' = [inv EXCEPT ![i] = Returned("fail", Null)]
    /\ out' = [NoOut EXCEPT !.result = "false", !.toast = message]
    /\ queuedWorkflow' = CatchQueued
    /\ workflowActivating' = FinallyActivating
    /\ UNCHANGED <<selectedWorkflow, pendingWorkflow, activeWorkflow>>

\* A refused configuration POST is sent again.
AfterRefusal_retry == "config"

\* if (!response.ok) { const errorData = await response.json(); ... }
AfterRefusal == "errorBody"

\* The configuration POST settles: a success response, a non-success response
\* or a rejection.
ConfigResponse(i, outcome) ==
    /\ inv[i].pc = "config"
    /\ IF outcome = "throw"
       THEN /\ CatchFinally(i, "exception")
       ELSE IF ResponseOk(outcome)
       THEN /\ inv' = [inv EXCEPT ![i].pc = "message", ![i].cfgStatus = outcome,
                                  ![i].msg = MessageBody(inv[i].wf)]
            /\ out' = [NoOut EXCEPT !.posted = MessageBody(inv[i].wf)]
            /\ UNCHANGED coord
       ELSE /\ inv' = [inv EXCEPT ![i].pc = AfterRefusal, ![i].cfgStatus = outcome]
            /\ out' = NoOut
            /\ UNCHANGED coord
    /\ UNCHANGED <<others, remoteWorkflow, sessionPhase, renderedPending, nCalls, lastDone>>

\* errorData.error || "Failed to update workflow", or the error response.json() threw.
ErrorMessage(body) ==
    CASE body = "error" -> "server"
      [] body = "empty" -> "fallback"
      [] OTHER -> "exception"

\* await response.json() of a non-success response settles; the error thrown
\* from it, or built from it, is caught.
ErrorBodyRead(i, body) ==
    /\ inv[i].pc = "errorBody"
    /\ CatchFinally(i, ErrorMessage(body))
    /\ UNCHANGED <<others, remoteWorkflow, sessionPhase, renderedPending, nCalls, lastDone>>

\* A message POST answered with a non-success status fails the activation.
MessageFails_checked(outcome) == outcome # "ok"

\* await fetch(...): only a rejection throws, the response is not looked at
MessageFails(outcome) == outcome = "throw"

\* A workflow selected in the meantime stays pending.
SuccessPending_ifSame(i) == IF pendingWorkflow = inv[i].wf THEN Null ELSE pendingWorkflow

\* setPendingWorkflow(null)
SuccessPending(i) == Null

\* The message POST settles: a response of any status, or a rejection.
MessageResponse(i, outcome) ==
    /\ inv[i].pc = "message"
    /\ IF MessageFails(outcome)
       THEN /\ CatchFinally(i, "exception")
            /\ UNCHANGED lastDone
       ELSE /\ activeWorkflow' = SuccessActive(i)
            /\ pendingWorkflow' = SuccessPending(i)
            /\ queuedWorkflow' = Null
            /\ inv' = [inv EXCEPT ![i].pc = "settle"]
            /\ lastDone' = i
            /\ out' = NoOut
            /\ UNCHANGED <<selectedWorkflow, workflowActivating>>
    /\ UNCHANGED <<others, remoteWorkflow, sessionPhase, renderedPending, nCalls>>

\* The invocation returns true without telling anyone.
SettleOut_silent == [NoOut EXCEPT !.result = "true"]

\* onWorkflowActivated?.(); return true;
SettleOut == [NoOut EXCEPT !.result = "true", !.callback = TRUE]

\* The 3000 ms timer fires: the callback runs, the invocation returns true and
\* the finally block clears the flag.
SettleDelayElapsed(i) ==
    /\ inv[i].pc = "settle"
    /\ inv' = [inv EXCEPT ![i] = Returned("ok", inv[i].wf)]
    /\ out' = SettleOut
    /\ workflowActivating' = FinallyActivating
    /\ UNCHANGED <<selectedWorkflow, pendingWorkflow, queuedWorkflow, activeWorkflow>>
    /\ UNCHANGED <<others, remoteWorkflow, sessionPhase, renderedPending, nCalls, lastDone>>

(***************************************************************************)
(* Selection                                                               *)
(***************************************************************************)
\* "none" clears the selection only when the catalog has no entry of that id.
IsNone_unlisted(value, ootbWorkflows) == value = "none" /\ Find(ootbWorkflows, value) = Null

\* if (value === "none"), tested before the catalog is looked at
IsNone(value, ootbWorkflows) == value = "none"

\* A workflow that is not available withdraws the pending one.
UnavailablePending_cleared == Null

\* if (!workflow.enabled) { errorToast(...); return null; }: pendingWorkflow is not written
UnavailablePending == pendingWorkflow

\* The entry flow for a custom workflow is not opened.
CustomOut_skipped == NoOut

\* onCustom(); return null;
CustomOut == [NoOut EXCEPT !.custom = TRUE]

\* The workflow is returned without being made the pending one.
SelectedPending_kept(workflow) == pendingWorkflow

\* setPendingWorkflow(workflow)
SelectedPending(workflow) == workflow

handleWorkflowChange(value, ootbWorkflows) ==
    LET workflow == Find(ootbWorkflows, value)
    IN /\ selectedWorkflow' = value
       /\ IF IsNone(value, ootbWorkflows)
          THEN /\ pendingWorkflow' = Null
               /\ out' = NoOut
          ELSE IF value = "custom"
          THEN /\ out' = CustomOut
               /\ UNCHANGED pendingWorkflow
          ELSE IF workflow = Null
          THEN /\ out' = [NoOut EXCEPT !.toast = "notfound"]
               /\ UNCHANGED pendingWorkflow
          ELSE IF ~workflow.enabled
          THEN /\ out' = [NoOut EXCEPT !.toast = "unavailable"]
               /\ pendingWorkflow' = UnavailablePending
          ELSE /\ pendingWorkflow' = SelectedPending(workflow)
               /\ out' = [NoOut EXCEPT !.selected = workflow]
       /\ UNCHANGED <<queuedWorkflow, activeWorkflow, workflowActivating>>
       /\ UNCHANGED <<others, remoteWorkflow, sessionPhase, renderedPending, inv, nCalls, lastDone>>

\* The branch and the path are taken as they were entered.
setCustomWorkflow_raw(url, branch, path) ==
    /\ pendingWorkflow' = [id |-> "custom", gitUrl |-> url, branch |-> branch,
                           path |-> path, enabled |-> TRUE]
    /\ selectedWorkflow' = "custom"
    /\ UNCHANGED <<queuedWorkflow, activeWorkflow, workflowActivating>>
    /\ UNCHANGED <<others, remoteWorkflow, sessionPhase, renderedPending, inv, nCalls, lastDone>>
    /\ out' = NoOut

setCustomWorkflow(url, branch, path) ==
    /\ pendingWorkflow' = [id |-> "custom", gitUrl |-> url, branch |-> OrStr(branch, "main"),
                           path |-> OrStr(path, ""), enabled |-> TRUE]
    /\ selectedWorkflow' = "custom"
    /\ UNCHANGED <<queuedWorkflow, activeWorkflow, workflowActivating>>
    /\ UNCHANGED <<others, remoteWorkflow, sessionPhase, renderedPending, inv, nCalls, lastDone>>
    /\ out' = NoOut

(***************************************************************************)
(* The session view that uses the hook                                     *)
(***************************************************************************)
\* The replay of a queued workflow once the session runs.
ReplayQueued ==
    /\ sessionPhase = "Running"
    /\ queuedWorkflow # Null
    /\ \A i \in Slots : ~(inv[i].pc \in {"config", "errorBody", "message"} /\ inv[i].wf = queuedWorkflow)
    /\ activateWorkflow(queuedWorkflow, sessionPhase)

Next ==
    \/ Render
    \/ \E p \in PhaseProps : SessionPhaseChange(p)
    \/ \E w \in WorkflowArgs, ph \in PhaseArgs : activateWorkflow(w, ph)
    \/ \E i \in Slots, o \in {"ok", "notok", "throw"} : ConfigResponse(i, o)
    \/ \E i \in Slots, b \in {"error", "empty", "throw"} : ErrorBodyRead(i, b)
    \/ \E i \in Slots, o \in {"ok", "notok", "throw"} : MessageResponse(i, o)
    \/ \E i \in Slots : SettleDelayElapsed(i)
    \/ \E sel \in Selections : handleWorkflowChange(sel[1], sel[2])
    \/ \E a \in CustomArgs : setCustomWorkflow(a[1], a[2], a[3])
    \/ ReplayQueued

Spec == Init /\ [][Next]_vars

(***************************************************************************)
(* The hook over the life of a session: the parent hands it every phase    *)
(* the session goes through, and the user works with the enabled catalog   *)
(* workflow only.                                                          *)
(***************************************************************************)
PhaseInit ==
    /\ selectedWorkflow = "none"
    /\ pendingWorkflow = Null
    /\ queuedWorkflow = Null
    /\ activeWorkflow = NullId
    /\ workflowActivating = FALSE
    /\ sessionPhase \in SessionPhases
    /\ renderedPending = Null
    /\ inv = [i \in Slots |-> IdleInvocation]
    /\ nCalls = 0
    /\ lastDone = 0
    /\ remoteWorkflow = NoBody
    /\ OthersInit
    /\ out = NoOut

PhaseNext ==
    \/ Render
    \/ \E p \in SessionPhases : SessionPhaseChange(p)
    \/ \E w \in WorkflowArgs, ph \in PhaseArgs : activateWorkflow(w, ph)
    \/ \E i \in Slots, o \in {"ok", "notok"} : ConfigResponse(i, o)
    \/ \E i \in Slots : ErrorBodyRead(i, "error")
    \/ \E i \in Slots : MessageResponse(i, "ok")
    \/ \E i \in Slots : SettleDelayElapsed(i)
    \/ handleWorkflowChange("research", <<NoneEntry, Draft, Research>>)
    \/ ReplayQueued

PhaseSpec == PhaseInit /\ [][PhaseNext]_vars

(***************************************************************************)
(* The hook together with the backend of the session: the backend stores   *)
(* the configuration of a POST while the request is in flight and answers  *)
(* with success once it has stored it.                                     *)
(***************************************************************************)
\* The backend handles the configuration POST of invocation i.
RemotePersist(i) ==
    /\ inv[i].pc = "config"
    /\ inv[i].cfgStatus = "none"
    /\ remoteWorkflow' = inv[i].cfg
    /\ inv' = [inv EXCEPT ![i].cfgStatus = "stored"]
    /\ out' = NoOut
    /\ UNCHANGED <<coord, others, sessionPhase, renderedPending, nCalls, lastDone>>

\* The backend answers a configuration POST it has stored.
StoredConfigResponse(i) == inv[i].cfgStatus = "stored" /\ ConfigResponse(i, "ok")

\* A configuration POST that never reached the backend is rejected.
LostConfigRequest(i) == inv[i].cfgStatus = "none" /\ ConfigResponse(i, "throw")

RemoteNext ==
    \/ Render
    \/ \E a \in CustomArgs : setCustomWorkflow(a[1], a[2], a[3])
    \/ \E w \in WorkflowArgs : activateWorkflow(w, "Running")
    \/ \E i \in Slots : RemotePersist(i)
    \/ \E i \in Slots : StoredConfigResponse(i)
    \/ \E i \in Slots : LostConfigRequest(i)
    \/ \E i \in Slots : MessageResponse(i, "ok")
    \/ \E i \in Slots : SettleDelayElapsed(i)

RemoteSpec == Init /\ [][RemoteNext]_vars

(***************************************************************************)
(* The hook with a runner that does not accept messages: every message     *)
(* POST is answered with a non-success status or is rejected.              *)
(***************************************************************************)
MessageNext ==
    \/ Render
    \/ \E sel \in Selections : handleWorkflowChange(sel[1], sel[2])
    \/ \E w \in WorkflowArgs, ph \in PhaseProps : activateWorkflow(w, ph)
    \/ \E i \in Slots, o \in {"ok", "notok"} : ConfigResponse(i, o)
    \/ \E i \in Slots : ErrorBodyRead(i, "error")
    \/ \E i \in Slots, o \in {"notok", "throw"} : MessageResponse(i, o)
    \/ \E i \in Slots : SettleDelayElapsed(i)

MessageSpec == Init /\ [][MessageNext]_vars

(***************************************************************************)
(* The hook used with custom workflows: the user enters a repository with  *)
(* or without a branch and a path, and activations are answered with       *)
(* success.                                                                *)
(***************************************************************************)
CustomNext ==
    \/ Render
    \/ \E a \in CustomInputs : setCustomWorkflow(a[1], a[2], a[3])
    \/ \E ph \in PhaseProps : activateWorkflow(Null, ph)
    \/ \E i \in Slots : ConfigResponse(i, "ok")
    \/ \E i \in Slots : MessageResponse(i, "ok")
    \/ \E i \in Slots : SettleDelayElapsed(i)

CustomSpec == Init /\ [][CustomNext]_vars

\* An invocation that has issued its configuration POST and has not returned.
InFlight(i) == inv[i].pc \in {"config", "errorBody", "message", "settle"}

TypeOK ==
    /\ workflowActivating \in BOOLEAN
    /\ sessionPhase \in PhaseProps \cup SessionPhases
    /\ nCalls \in 0..MaxCalls
    /\ lastDone \in 0..MaxCalls
    /\ \A i \in Slots :
          /\ inv[i].pc \in {"idle", "config", "errorBody", "message", "settle", "returned"}
          /\ inv[i].exit \in {"none", "noop", "queued", "ok", "fail"}
          /\ inv[i].pc = "idle" <=> i > nCalls
          /\ inv[i].pc = "returned" <=> inv[i].exit # "none"

(***************************************************************************)
(* The activating flag                                                     *)
(***************************************************************************)
\* C1 as stated: the flag is cleared on every exit path, the deferred return
\* included, so it is never true while no invocation is running.
C1_ClearedOnEveryExit == workflowActivating => \E i \in Slots : InFlight(i)

\* C1, amended: an invocation that took the live branch clears the flag when it
\* returns, whether it succeeded or failed; the deferred return leaves the flag
\* set, and the flag is true with no invocation running only while a workflow
\* is queued.
C1_ClearedOnLiveExit ==
    /\ [](workflowActivating /\ (\A i \in Slots : ~InFlight(i)) => queuedWorkflow # Null)
    /\ [][\A i \in Slots : InFlight(i) /\ inv'[i].pc = "returned" => ~workflowActivating']_vars

\* A successful and a failed live invocation have both returned.
C1_Witness ==
    /\ \E i \in Slots : inv[i].exit = "ok"
    /\ \E i \in Slots : inv[i].exit = "fail"
    /\ ~workflowActivating

\* C7: the flag is true whenever an invocation is in flight or a workflow is
\* queued, also when invocations overlap.
C7_ActivatingWhileInFlight ==
    (\E i \in Slots : InFlight(i)) \/ queuedWorkflow # Null => workflowActivating

(***************************************************************************)
(* The deferral branch                                                     *)
(***************************************************************************)
\* The workflows and phases an activateWorkflow call may resolve.
AllWorkflowArgs == WorkflowArgs \cup {pendingWorkflow, queuedWorkflow}
AllPhaseArgs == PhaseArgs \cup PhaseProps

\* C2: a call that resolves a workflow and a phase other than "Running" issues
\* no remote call, queues the workflow, selects its id, sets the flag and
\* returns true.
C2_DeferralQueues ==
    [][nCalls' = nCalls + 1 =>
          \A w \in AllWorkflowArgs, ph \in AllPhaseArgs :
              /\ ResolveWorkflow(w) # Null /\ ResolvePhase(ph) # "Running"
              /\ activateWorkflow(w, ph)
              => /\ queuedWorkflow' = ResolveWorkflow(w)
                 /\ selectedWorkflow' = ResolveWorkflow(w).id
                 /\ workflowActivating'
                 /\ out'.result = "true"
                 /\ inv'[nCalls'].pc = "returned"
                 /\ inv'[nCalls'].cfg = NoBody /\ inv'[nCalls'].msg = NoBody
                 /\ \A i \in Slots \ {nCalls'} : inv'[i] = inv[i]]_vars

\* A call made with an explicit phase other than "Running" ("Creating",
\* "Stopped") while the session itself runs has queued its workflow.
C2_Witness ==
    /\ nCalls > 0
    /\ inv[nCalls].exit = "queued"
    /\ inv[nCalls].cfg = NoBody /\ inv[nCalls].msg = NoBody
    /\ out.result = "true"
    /\ sessionPhase = "Running"
    /\ queuedWorkflow = inv[nCalls].wf /\ selectedWorkflow = inv[nCalls].wf.id
    /\ workflowActivating

\* C3: a queued workflow stays queued until a configuration POST for it has
\* been issued; it is not dropped without one.
C3_QueuedNotLost ==
    [][queuedWorkflow # Null /\ queuedWorkflow' = Null
       => \E i \in Slots : /\ InFlight(i)
                           /\ inv[i].wf = queuedWorkflow
                           /\ inv[i].cfg = ConfigBody(queuedWorkflow)]_vars

(***************************************************************************)
(* The live branch                                                         *)
(***************************************************************************)
\* C4: when both remote calls succeed the invocation sets activeWorkflow to its
\* target, clears pendingWorkflow and queuedWorkflow, and returns true only when
\* the settle delay has elapsed, the flag staying true through the delay.
C4_LiveSuccess ==
    /\ [](\A i \in Slots : inv[i].pc = "settle" => workflowActivating)
    /\ [][\A i \in Slots :
            /\ inv[i].pc = "message" /\ inv'[i].pc # "message" /\ inv'[i].exit # "fail"
               => /\ inv'[i].pc = "settle"
                  /\ activeWorkflow' = inv[i].wf.id
                  /\ pendingWorkflow' = Null /\ queuedWorkflow' = Null
            /\ inv'[i].exit = "ok" /\ inv[i].exit # "ok"
               => inv[i].pc = "settle" /\ out'.result = "true"]_vars

\* C5: a non-success response to the configuration POST leaves pendingWorkflow
\* and activeWorkflow as they are, clears queuedWorkflow, reports an error and
\* makes the invocation return false.
C5_ConfigFailure ==
    [][inv' # inv =>
          \A i \in Slots :
              /\ ConfigResponse(i, "notok")
                 => inv'[i].pc = "errorBody" /\ inv'[i].msg = NoBody /\ UNCHANGED coord
              /\ inv[i].pc = "errorBody" /\ inv'[i] # inv[i]
                 => /\ pendingWorkflow' = pendingWorkflow
                    /\ activeWorkflow' = activeWorkflow
                    /\ queuedWorkflow' = Null
                    /\ out'.toast # "none"
                    /\ out'.result = "false"
                    /\ inv'[i].pc = "returned" /\ inv'[i].exit = "fail"
                    /\ inv'[i].msg = NoBody]_vars

\* The configuration POST of an activation has been refused with the server's
\* message while a workflow was pending and another one active.
C5_Witness ==
    /\ \E i \in Slots : inv[i].exit = "fail"
    /\ out.toast = "server" /\ out.result = "false"
    /\ pendingWorkflow # Null
    /\ activeWorkflow # NullId
    /\ queuedWorkflow = Null

\* C6: the message POST of an invocation has been issued only where its
\* configuration POST has been issued and answered with success; while the
\* configuration POST is in flight, or after it was refused, no message POST of
\* that invocation exists, so the two are never in flight together.
C6_ConfigBeforeMessage ==
    \A i \in Slots :
        /\ inv[i].msg # NoBody
           => /\ inv[i].pc \in {"message", "settle"}
              /\ inv[i].cfg = ConfigBody(inv[i].wf)
              /\ inv[i].cfgStatus = "ok"
              /\ inv[i].msg = MessageBody(inv[i].wf)
        /\ inv[i].pc = "config"
           => inv[i].cfg = ConfigBody(inv[i].wf) /\ inv[i].cfgStatus = "none"
        /\ inv[i].pc = "errorBody" => inv[i].cfgStatus = "notok"
        /\ inv[i].pc \in {"message", "settle"} => inv[i].msg # NoBody

\* One invocation has sent both POSTs and waits for the second, another was
\* refused at the first and waits for the body of the refusal.
C6_Witness ==
    /\ \E i \in Slots : inv[i].pc = "message" /\ inv[i].msg = MessageBody(inv[i].wf)
    /\ \E i \in Slots : inv[i].pc = "errorBody" /\ inv[i].msg = NoBody

(***************************************************************************)
(* Overlapping invocations                                                 *)
(***************************************************************************)
\* C8: of overlapping live invocations the one whose message POST returned
\* last decides activeWorkflow, whichever started first, and it leaves
\* pendingWorkflow absent; no other step of an invocation writes either.
C8_LastToCompleteWins ==
    /\ [](lastDone # 0 => activeWorkflow = inv[lastDone].wf.id)
    /\ [][/\ lastDone' # lastDone
             => /\ inv[lastDone'].pc = "message" /\ inv'[lastDone'].pc = "settle"
                /\ pendingWorkflow' = Null
          /\ lastDone' = lastDone /\ inv' # inv
             => activeWorkflow' = activeWorkflow /\ pendingWorkflow' = pendingWorkflow]_vars

\* Two invocations for different workflows overlapped, the second finished its
\* round trip first, and the first one's workflow is the active one.
C8_Witness ==
    /\ MaxCalls >= 2
    /\ inv[1].exit = "ok" /\ inv[2].exit = "ok"
    /\ inv[1].wf # inv[2].wf
    /\ lastDone = 1
    /\ activeWorkflow = inv[1].wf.id
    /\ pendingWorkflow = Null

(***************************************************************************)
(* Selection                                                               *)
(***************************************************************************)
\* C9: activateWorkflow() without a workflow argument, the session running,
\* acts on the workflow that is pending at the time of the call, which is the
\* one selectWorkflow has just set: its configuration is what is posted.
C9_ActivatesSelection ==
    [][\A ph \in AllPhaseArgs :
          /\ nCalls' = nCalls + 1
          /\ pendingWorkflow # Null /\ ResolvePhase(ph) = "Running"
          /\ activateWorkflow(Null, ph)
          => /\ inv'[nCalls'].pc = "config"
             /\ inv'[nCalls'].wf = pendingWorkflow
             /\ inv'[nCalls'].cfg = ConfigBody(pendingWorkflow)]_vars

\* C10: a selection that finds no workflow, or a disabled one, reports an
\* error, returns no workflow, starts no invocation and leaves selectedWorkflow,
\* pendingWorkflow, queuedWorkflow, activeWorkflow and the flag as they were.
C10_FailedLookupChangesNothing ==
    [][\A v \in Values \ {"none", "custom"}, c \in Catalogs :
          handleWorkflowChange(v, c) /\ (Find(c, v) = Null \/ ~Find(c, v).enabled)
          => /\ out'.toast # "none"
             /\ out'.selected = Null
             /\ inv' = inv
             /\ UNCHANGED coord]_vars

\* C11: selecting a workflow that the catalog lists as disabled leaves
\* pendingWorkflow exactly as it was, whatever it held.
C11_DisabledKeepsPending ==
    [][inv' = inv /\ selectedWorkflow' \notin {"none", "custom"} =>
          \A v \in Values \ {"none", "custom"}, c \in Catalogs :
              /\ LET workflow == Find(c, v) IN workflow # Null /\ ~workflow.enabled
              /\ handleWorkflowChange(v, c)
              => pendingWorkflow' = pendingWorkflow /\ out'.selected = Null]_vars

\* A disabled workflow has just been refused while another workflow was pending.
C11_Witness ==
    /\ out.toast = "unavailable"
    /\ pendingWorkflow # Null
    /\ selectedWorkflow # pendingWorkflow.id

\* C12: selecting "none" leaves the coordinator idle: no pending and no active
\* workflow, also when a workflow was active before.
C12_NoneIsIdle ==
    [][\A c \in Catalogs :
          handleWorkflowChange("none", c)
          => pendingWorkflow' = Null /\ activeWorkflow' = NullId]_vars

\* C13: selecting "none" clears pendingWorkflow and returns no workflow for
\* every catalog, the empty one and one that lists an entry with the id "none"
\* included.
C13_NoneClearsPending ==
    [][\A c \in Catalogs :
          handleWorkflowChange("none", c)
          => /\ pendingWorkflow' = Null
             /\ out'.selected = Null
             /\ out'.toast = "none" /\ ~out'.custom]_vars

\* Before any activation, "none" has been selected over a pending workflow that
\* the current render still shows.
C13_Witness ==
    /\ nCalls = 0
    /\ selectedWorkflow = "none"
    /\ pendingWorkflow = Null
    /\ renderedPending # Null

(***************************************************************************)
(* Exits of activateWorkflow                                               *)
(***************************************************************************)
\* C14: activateWorkflow() without a workflow argument while pendingWorkflow is
\* absent returns false, issues no remote call, reports nothing, does not call
\* the activated callback and changes no field of the state.
C14_NothingToActivate ==
    [][nCalls' = nCalls + 1 /\ pendingWorkflow = Null =>
          \A ph \in AllPhaseArgs :
              activateWorkflow(Null, ph)
              => /\ out' = [NoOut EXCEPT !.result = "false"]
                 /\ inv'[nCalls'] = Returned("noop", Null)
                 /\ UNCHANGED coord]_vars

\* C15: a rejection of the configuration POST, of the message POST, or of the
\* read of an error body is reported, clears queuedWorkflow, leaves
\* pendingWorkflow and activeWorkflow as they are, does not call the activated
\* callback and makes the invocation return false.
C15_ExceptionIsFailure ==
    [][inv' # inv =>
          \A i \in Slots :
              /\ inv'[i] # inv[i]
              /\ ConfigResponse(i, "throw") \/ ErrorBodyRead(i, "throw") \/ MessageResponse(i, "throw")
              => /\ out'.toast # "none"
                 /\ out'.result = "false"
                 /\ ~out'.callback
                 /\ queuedWorkflow' = Null
                 /\ pendingWorkflow' = pendingWorkflow
                 /\ activeWorkflow' = activeWorkflow
                 /\ inv'[i].pc = "returned" /\ inv'[i].exit = "fail"]_vars

\* A remote call of the second invocation has just been rejected, after the
\* first invocation had made its workflow the active one and while another
\* workflow was pending.
C15_Witness ==
    /\ out.toast = "exception" /\ out.result = "false"
    /\ nCalls = 2 /\ inv[1].exit = "ok" /\ inv[2].exit = "fail"
    /\ activeWorkflow = inv[1].wf.id
    /\ pendingWorkflow # Null
    /\ queuedWorkflow = Null

\* C16: the activated callback is called exactly when an invocation returns
\* from its settle delay, hence once per successful live invocation and after
\* activeWorkflow was set; an invocation that returns deferred, failed or with
\* nothing to do does not call it.
C16_CallbackOncePerSuccess ==
    /\ [](\A i \in Slots : inv[i].pc = "settle" => lastDone # 0 /\ activeWorkflow # NullId)
    /\ [][/\ out'.callback => \E i \in Slots : inv[i].pc = "settle" /\ inv'[i].exit = "ok"
          /\ inv' # inv =>
                /\ Cardinality({i \in Slots : inv'[i].exit # inv[i].exit}) <= 1
                /\ \A i \in Slots :
                      /\ inv[i].pc = "returned" => inv'[i] = inv[i]
                      /\ inv'[i].exit # inv[i].exit /\ inv'[i].exit = "ok"
                         => inv[i].pc = "settle" /\ out'.callback
                      /\ inv'[i].exit # inv[i].exit /\ inv'[i].exit \in {"noop", "queued", "fail"}
                         => ~out'.callback]_vars

\* The callback has just been called for an invocation that succeeded, after
\* another invocation had been deferred.
C16_Witness ==
    /\ out.callback
    /\ \E i \in Slots : inv[i].exit = "ok" /\ activeWorkflow = inv[i].wf.id
    /\ \E i \in Slots : inv[i].exit = "queued"

\* C17: queuedWorkflow holds one workflow or none, and a deferred call made
\* while a workflow is queued replaces it: afterwards queuedWorkflow is the
\* target of that call and selectedWorkflow is its id.
C17_QueueOverwritten ==
    /\ [](DOMAIN queuedWorkflow = DOMAIN Null)
    /\ [][nCalls' = nCalls + 1 /\ queuedWorkflow # Null =>
             \A w \in AllWorkflowArgs, ph \in AllPhaseArgs :
                 /\ ResolveWorkflow(w) # Null /\ ResolvePhase(ph) # "Running"
                 /\ activateWorkflow(w, ph)
                 => /\ queuedWorkflow' = ResolveWorkflow(w)
                    /\ selectedWorkflow' = ResolveWorkflow(w).id]_vars

\* Two calls were deferred for different workflows and the second one's
\* workflow is the queued and the selected one.
C17_Witness ==
    /\ nCalls = 2
    /\ inv[1].exit = "queued" /\ inv[2].exit = "queued"
    /\ inv[1].wf # inv[2].wf
    /\ queuedWorkflow = inv[2].wf
    /\ selectedWorkflow = inv[2].wf.id

\* C18: an invocation issues its configuration POST only when it starts and
\* its message POST only when the configuration POST was answered, and it never
\* goes back to either: whatever the answers, each is issued at most once.
C18_NoRetry ==
    [][inv' # inv =>
          \A i \in Slots :
              inv'[i] # inv[i]
              => /\ inv[i].pc # "returned"
                 /\ inv'[i].cfg # inv[i].cfg /\ inv'[i].cfg # NoBody
                    => inv[i].pc = "idle" /\ inv'[i].pc = "config"
                 /\ inv'[i].msg # inv[i].msg /\ inv'[i].msg # NoBody
                    => inv[i].pc = "config" /\ inv'[i].pc = "message"
                 /\ inv[i].pc = "config" => inv'[i].pc \in {"errorBody", "message", "returned"}
                 /\ inv[i].pc = "errorBody" => inv'[i].pc = "returned"
                 /\ inv[i].pc = "message" => inv'[i].pc \in {"settle", "returned"}
                 /\ inv[i].pc = "settle" => inv'[i].pc = "returned"]_vars

\* An invocation whose configuration POST was refused without a message has
\* just returned, and no invocation is left running.
C18_Witness ==
    /\ out.toast = "fallback" /\ out.result = "false"
    /\ \E i \in Slots : inv[i].exit = "fail"
    /\ \A i \in Slots : ~InFlight(i)

\* C19: a call with an explicit workflow acts on that workflow and not on the
\* pending one: it is what the call queues and selects, or what both POSTs
\* carry and what becomes the active workflow.
C19_ExplicitWorkflowWins ==
    /\ [](\A i \in Slots :
            /\ InFlight(i) => inv[i].cfg = ConfigBody(inv[i].wf)
            /\ inv[i].pc \in {"message", "settle"} => inv[i].msg = MessageBody(inv[i].wf))
    /\ [][/\ nCalls' = nCalls + 1 =>
                \A w \in AllWorkflowArgs \ {Null}, ph \in AllPhaseArgs :
                    activateWorkflow(w, ph)
                    => /\ inv'[nCalls'].wf = w
                       /\ pendingWorkflow' = pendingWorkflow
                       /\ inv'[nCalls'].exit = "queued"
                          => queuedWorkflow' = w /\ selectedWorkflow' = w.id
                       /\ inv'[nCalls'].exit # "queued"
                          => inv'[nCalls'].pc = "config" /\ inv'[nCalls'].cfg = ConfigBody(w)
          /\ inv' # inv => \A i \in Slots :
                /\ InFlight(i) /\ inv'[i].exit # "fail" => inv'[i].wf = inv[i].wf
                /\ inv[i].pc = "message" /\ inv'[i].pc = "settle"
                   => activeWorkflow' = inv[i].wf.id]_vars

\* A call has just been deferred for a workflow other than the pending one,
\* which the render it was made from had seen.
C19_Witness ==
    /\ out.result = "true" /\ ~out.callback
    /\ pendingWorkflow # Null /\ renderedPending = pendingWorkflow
    /\ queuedWorkflow # Null /\ queuedWorkflow # pendingWorkflow
    /\ selectedWorkflow = queuedWorkflow.id

\* C20: a call with an explicit phase takes its branch from that phase, and
\* from the last known session phase only when none is given: an explicit
\* "Running" starts the configuration POST whatever the session phase is, an
\* explicit other phase defers the workflow even while the session runs.
C20_ExplicitPhaseWins ==
    [][nCalls' = nCalls + 1 =>
          \A w \in AllWorkflowArgs, ph \in PhaseArgs \cup SessionPhases :
              ResolveWorkflow(w) # Null /\ activateWorkflow(w, ph)
              => LET given == ph # Absent /\ ph # ""
                     live == IF given THEN ph = "Running" ELSE sessionPhase = "Running"
                 IN IF live
                    THEN /\ inv'[nCalls'].pc = "config"
                         /\ out'.posted = ConfigBody(ResolveWorkflow(w))
                         /\ queuedWorkflow' = queuedWorkflow
                    ELSE /\ inv'[nCalls'].exit = "queued"
                         /\ out'.posted = NoBody
                         /\ queuedWorkflow' = ResolveWorkflow(w)]_vars

\* While the session is still being created, a first call was deferred and a
\* second one, told that the session runs, has just sent its configuration POST.
C20_Witness ==
    /\ sessionPhase = "Creating"
    /\ nCalls = 2
    /\ inv[1].exit = "queued"
    /\ inv[2].pc = "config"
    /\ out.posted = ConfigBody(inv[2].wf)

(***************************************************************************)
(* Selection, continued                                                    *)
(***************************************************************************)
\* C21: selecting the id of an enabled catalog entry makes that entry the
\* pending workflow, selects its id, returns the entry, sends no request and
\* leaves activeWorkflow, queuedWorkflow and the flag as they were.
C21_EnabledBecomesPending ==
    [][inv' = inv /\ selectedWorkflow' \notin {"none", "custom"} =>
          \A v \in Values \ {"none", "custom"}, c \in Catalogs :
              /\ LET workflow == Find(c, v) IN workflow # Null /\ workflow.enabled
              /\ handleWorkflowChange(v, c)
              => /\ pendingWorkflow' = Find(c, v)
                 /\ selectedWorkflow' = v
                 /\ out'.selected = Find(c, v)
                 /\ out'.posted = NoBody /\ out'.toast = "none"
                 /\ UNCHANGED <<activeWorkflow, queuedWorkflow, workflowActivating>>]_vars

\* A catalog workflow has just been selected while another workflow was active
\* and a third call had left one queued.
C21_Witness ==
    /\ out.selected # Null
    /\ pendingWorkflow = out.selected
    /\ selectedWorkflow = out.selected.id
    /\ activeWorkflow \notin {NullId, out.selected.id}
    /\ queuedWorkflow # Null
    /\ workflowActivating

\* C22: selecting "custom" opens the entry flow for a custom workflow, returns
\* no workflow and leaves pendingWorkflow as it was, for every catalog.
C22_CustomDefers ==
    [][inv' = inv /\ selectedWorkflow' = "custom" =>
          \A c \in Catalogs :
              handleWorkflowChange("custom", c)
              => /\ out'.custom
                 /\ out'.selected = Null
                 /\ out'.toast = "none" /\ out'.posted = NoBody
                 /\ pendingWorkflow' = pendingWorkflow
                 /\ UNCHANGED <<activeWorkflow, queuedWorkflow, workflowActivating>>]_vars

\* "custom" has just been selected while a catalog workflow was pending.
C22_Witness ==
    /\ out.custom
    /\ selectedWorkflow = "custom"
    /\ pendingWorkflow # Null /\ pendingWorkflow.id # "custom"

\* C23: setCustomWorkflow(url, branch, path) makes pending the workflow with
\* the id "custom", the given url, the branch or "main" when it is empty, the
\* path or "" when it is left out, and enabled; it selects "custom", sends no
\* request and leaves activeWorkflow, queuedWorkflow and the flag as they were.
C23_CustomBecomesPending ==
    [][inv' = inv /\ selectedWorkflow' = "custom" =>
          \A a \in CustomInputs \cup CustomArgs :
              setCustomWorkflow(a[1], a[2], a[3])
              => /\ pendingWorkflow' =
                        [id |-> "custom", gitUrl |-> a[1],
                         branch |-> IF a[2] \in {"", Absent} THEN "main" ELSE a[2],
                         path |-> IF a[3] \in {"", Absent} THEN "" ELSE a[3],
                         enabled |-> TRUE]
                 /\ selectedWorkflow' = "custom"
                 /\ out' = NoOut
                 /\ UNCHANGED <<activeWorkflow, queuedWorkflow, workflowActivating>>]_vars

\* A custom workflow entered with a branch and a path has been activated, and
\* one entered without them is pending on the default branch while another
\* one waits in the queue.
C23_Witness ==
    /\ \E i \in Slots : inv[i].exit = "ok" /\ inv[i].wf.branch = "dev" /\ inv[i].wf.path = "wf"
    /\ activeWorkflow = "custom"
    /\ selectedWorkflow = "custom"
    /\ pendingWorkflow.id = "custom" /\ pendingWorkflow.branch = "main" /\ pendingWorkflow.path = ""
    /\ queuedWorkflow # Null /\ queuedWorkflow # pendingWorkflow

(***************************************************************************)
(* The hook and the backend                                                *)
(***************************************************************************)
\* C27: activeWorkflow is written when an invocation's message POST returns
\* and the stored configuration when the backend handles a configuration POST;
\* neither step looks at the other, so two overlapping invocations for
\* different workflows can both succeed and leave activeWorkflow naming a
\* workflow other than the one stored last (the state of C27_Witness).
C27_LocalAndRemoteUnrelated ==
    /\ [](lastDone # 0 => activeWorkflow = inv[lastDone].wf.id)
    /\ [][/\ remoteWorkflow' # remoteWorkflow
             => \E i \in Slots : /\ inv[i].pc = "config" /\ inv'[i].pc = "config"
                                  /\ remoteWorkflow' = ConfigBody(inv[i].wf)
                                  /\ activeWorkflow' = activeWorkflow
          /\ lastDone' # lastDone
             => /\ remoteWorkflow' = remoteWorkflow
                /\ activeWorkflow' = inv[lastDone'].wf.id]_vars

\* Both invocations have returned true, the first one's workflow is the active
\* one and the second one's configuration is the one stored last.
C27_Witness ==
    /\ nCalls = 2
    /\ inv[1].exit = "ok" /\ inv[2].exit = "ok"
    /\ inv[1].wf # inv[2].wf
    /\ activeWorkflow = inv[1].wf.id
    /\ remoteWorkflow = ConfigBody(inv[2].wf)
    /\ remoteWorkflow # ConfigBody(inv[1].wf)

(***************************************************************************)
(* The success step                                                        *)
(***************************************************************************)
\* C25: whatever status the response to the message POST carries, the
\* invocation makes its target the active workflow, clears pendingWorkflow and
\* queuedWorkflow, reports nothing and goes on to return true; only a
\* rejection of the message POST makes it fail.
C25_MessageStatusIgnored ==
    [][inv' # inv =>
          \A i \in Slots :
              /\ \A o \in {"ok", "notok"} :
                    MessageResponse(i, o)
                    => /\ activeWorkflow' = inv[i].wf.id
                       /\ pendingWorkflow' = Null /\ queuedWorkflow' = Null
                       /\ out'.toast = "none" /\ out'.result = "none"
                       /\ inv'[i].pc = "settle"
              /\ inv[i].pc = "settle" /\ inv'[i] # inv[i]
                 => inv'[i].exit = "ok" /\ out'.result = "true" /\ out'.toast = "none"
              /\ MessageResponse(i, "throw")
                 => /\ inv'[i].exit = "fail" /\ out'.result = "false" /\ out'.toast # "none"
                    /\ activeWorkflow' = activeWorkflow]_vars

\* With a runner that refuses every message, one invocation has returned true,
\* its workflow is the active one, and another invocation has failed.
C25_Witness ==
    /\ \E i \in Slots : inv[i].exit = "ok" /\ activeWorkflow = inv[i].wf.id
    /\ \E i \in Slots : inv[i].exit = "fail"
    /\ pendingWorkflow = Null /\ queuedWorkflow = Null

\* C26: activeWorkflow changes only in the step in which the message POST of
\* an invocation returns, after that invocation's configuration POST carried
\* its target and was answered with success, and it becomes that target's id;
\* no selection, deferral or failure changes it.
C26_ActiveOnlyOnSuccess ==
    [][activeWorkflow' # activeWorkflow =>
          \E i \in Slots :
              /\ inv[i].pc = "message" /\ inv'[i].pc = "settle"
              /\ inv[i].cfgStatus = "ok"
              /\ inv[i].cfg = ConfigBody(inv[i].wf)
              /\ inv[i].msg = MessageBody(inv[i].wf)
              /\ activeWorkflow' = inv[i].wf.id
              /\ out'.toast = "none"]_vars

\* The message POST of an invocation has returned and made its target the
\* active workflow while another workflow is the selected one.
C26_Witness ==
    /\ lastDone # 0
    /\ inv[lastDone].pc = "settle"
    /\ activeWorkflow = inv[lastDone].wf.id
    /\ selectedWorkflow \notin {"none", activeWorkflow}
    /\ \E i \in Slots : inv[i].exit \in {"queued", "fail"}

\* C28: the step in which the message POST of an invocation returns clears
\* pendingWorkflow whatever it holds, so a workflow made pending while the
\* requests were in flight is dropped without having been activated.
C28_SuccessDropsPending ==
    [][inv' # inv =>
          \A i \in Slots :
              inv[i].pc = "message" /\ inv'[i].pc = "settle" => pendingWorkflow' = Null]_vars

\* The only invocation so far, for the custom workflow that was pending when
\* it started, has completed its requests; the catalog workflow selected and
\* rendered in the meantime is no longer pending.
C28_Witness ==
    /\ nCalls = 1
    /\ inv[1].pc = "settle" /\ inv[1].wf.id = "custom"
    /\ renderedPending = Research
    /\ selectedWorkflow = "research"
    /\ pendingWorkflow = Null
    /\ activeWorkflow = "custom"

\* ---------------------------------------------------------------------------
\* The catalog query: useOOTBWorkflows (services/queries/use-workflows.ts)
\* ---------------------------------------------------------------------------

\* The longest catalog the backend answers with.
MaxCatalog == 3

\* Names and ids are strings: sequences of characters.
Template == <<"t", "e", "m", "p", "l", "a", "t", "e">>
Whitespace == {" "}

NameResearch == <<"R", "e", "s", "e", "a", "r", "c", "h">>
IdResearch == <<"r", "e", "s", "e", "a", "r", "c", "h">>
NameTemplate == <<"T", "e", "m", "p", "l", "a", "t", "e">>
IdTemplateWf == <<"t", "e", "m", "p", "l", "a", "t", "e", "-", "w", "f">>
NamePaddedUpper == <<" ", "T", "E", "M", "P", "L", "A", "T", "E", " ">>
IdMyTemplate == <<"m", "y", "-", "T", "e", "m", "p", "l", "a", "t", "e">>
NameATemplate == <<"A", " ", "t", "e", "m", "p", "l", "a", "t", "e">>
NameTempLate == <<"T", "e", "m", "p", " ", "l", "a", "t", "e">>
IdTemplat == <<"t", "e", "m", "p", "l", "a", "t">>
NameBugfix == <<" ", "B", "u", "g", "f", "i", "x">>
IdBugfix == <<"b", "u", "g", "f", "i", "x">>

\* The entries listOOTBWorkflows answers with; a field may be missing.
CatalogEntries ==
    { [name |-> NameResearch,    id |-> IdResearch],
      [name |-> NameTemplate,    id |-> IdTemplateWf],
      [name |-> NamePaddedUpper, id |-> IdBugfix],
      [name |-> NameBugfix,      id |-> IdMyTemplate],
      [name |-> Undefined,       id |-> IdTemplateWf],
      [name |-> NameATemplate,   id |-> Undefined],
      [name |-> NameTempLate,    id |-> IdTemplat],
      [name |-> Undefined,       id |-> Undefined] }

\* String.prototype.toLowerCase, character by character.
LowerChar(c) ==
    CASE c = "A" -> "a" [] c = "B" -> "b" [] c = "E" -> "e" [] c = "L" -> "l"
      [] c = "M" -> "m" [] c = "P" -> "p" [] c = "R" -> "r" [] c = "T" -> "t"
      [] OTHER -> c

toLowerCase_kept(str) == str
toLowerCase(str) == [k \in 1..Len(str) |-> LowerChar(str[k])]

\* String.prototype.trim: the whitespace at both ends goes, inner whitespace stays.
RECURSIVE trim(_)
trim(str) ==
    IF str = << >> THEN str
    ELSE IF Head(str) \in Whitespace THEN trim(Tail(str))
    ELSE IF str[Len(str)] \in Whitespace THEN trim(SubSeq(str, 1, Len(str) - 1))
    ELSE str

\* String.prototype.includes.
includes(str, search) ==
    \E k \in 0..(Len(str) - Len(search)) : SubSeq(str, k + 1, k + Len(search)) = search

\* (field || ""): a missing or empty field counts as the empty string.
OrEmpty(field) == IF field = Undefined THEN << >> ELSE field

\* The predicate of the filter: true for the entries that are dropped.
isTemplate(workflow) ==
    LET nameLower == trim(toLowerCase(OrEmpty(workflow.name)))
        idLower   == trim(toLowerCase(OrEmpty(workflow.id)))
    IN  includes(nameLower, Template) \/ includes(idLower, Template)

\* The backend lists one more workflow for the project.
PublishWorkflow(entry) ==
    /\ Len(ootbCatalog) < MaxCatalog
    /\ ootbCatalog' = Append(ootbCatalog, entry)
    /\ UNCHANGED <<hook, nameField, feedback, rawCatalog, listed>>

\* The query function: the answer of listOOTBWorkflows, filtered.
queryFn ==
    LET workflows == ootbCatalog
    IN  /\ rawCatalog' = workflows
        /\ listed' = SelectSeq(workflows, LAMBDA workflow : ~isTemplate(workflow))
        /\ UNCHANGED <<hook, nameField, feedback, ootbCatalog>>

\* The catalog grows and the query is fetched again and again.
CatalogNext ==
    \/ \E entry \in CatalogEntries : PublishWorkflow(entry)
    \/ queryFn

CatalogSpec == Init /\ [][CatalogNext]_vars

\* A string holds "template" in any case: some position starts the eight letters.
HoldsTemplate(field) ==
    /\ field # Undefined
    /\ \E k \in 1..Len(field) :
          /\ k + 7 <= Len(field)
          /\ \A j \in 1..8 : LowerChar(field[k + j - 1]) = Template[j]

\* The positions of the answer that survive, and the position of the n-th survivor.
Survivors == {k \in 1..Len(rawCatalog) :
                 ~HoldsTemplate(rawCatalog[k].name) /\ ~HoldsTemplate(rawCatalog[k].id)}
NthSurvivor(n) == CHOOSE k \in Survivors : Cardinality({m \in Survivors : m <= k}) = n

\* C24: the query result holds exactly the entries of the backend's answer whose
\* name and id both do not contain "template" (in any case, padded or not, the
\* other field present or missing), in their original relative order.
C24_TemplatesFilteredInOrder ==
    /\ Len(listed) = Cardinality(Survivors)
    /\ \A n \in 1..Len(listed) : listed[n] = rawCatalog[NthSurvivor(n)]

\* An answer where a template stands between two different surviving entries,
\* and another answer's excluded kinds: upper case and padded, missing name.
C24_Witness ==
    /\ Len(rawCatalog) = 3
    /\ rawCatalog[1] = [name |-> NameTempLate, id |-> IdTemplat]
    /\ rawCatalog[2] \in {[name |-> NamePaddedUpper, id |-> IdBugfix],
                          [name |-> Undefined, id |-> IdTemplateWf],
                          [name |-> NameBugfix, id |-> IdMyTemplate]}
    /\ rawCatalog[3] = [name |-> NameResearch, id |-> IdResearch]
    /\ listed = <<rawCatalog[1], rawCatalog[3]>>

\* ---------------------------------------------------------------------------
\* The session name: EditableSessionName (components/editable-session-name.tsx)
\* ---------------------------------------------------------------------------

DefaultPrefix == <<"a", "g", "e", "n", "t", "i", "c", "-",
                   "s", "e", "s", "s", "i", "o", "n", "-">>
Digits == {"0", "1", "2", "3", "4", "5", "6", "7", "8", "9"}

DefaultName == DefaultPrefix \o <<"1">>
NameDemo == <<"D", "e", "m", "o">>
MetadataDemo == <<"d", "e", "m", "o">>
TypedPadded == <<" ", "W", "o", "r", "k", " ">>
TypedBlank == <<" ">>
TypedDefault == DefaultPrefix \o <<"2", "3">>
TypedAlmost == DefaultPrefix \o <<"2", "x">>

\* The names a session is shown with at first, its resource names, and what
\* the user types into the input.
InitialNames == {DefaultName, NameDemo}
MetadataNames == {DefaultName, MetadataDemo}
TypedValues == {TypedPadded, TypedBlank, TypedDefault, TypedAlmost, NameDemo}

\* /^agentic-session-\d+$/.test(name)
isDefaultName(name) ==
    LET n == Len(DefaultPrefix)
    IN  /\ Len(name) > n
        /\ SubSeq(name, 1, n) = DefaultPrefix
        /\ \A k \in (n + 1)..Len(name) : name[k] \in Digits

\* The first effect: it turns the edit mode on for a default name.
AutoEditEffect(editing, name, metadata) ==
    IF isDefaultName(name) \/ isDefaultName(metadata) THEN TRUE ELSE editing

\* What just happened is remembered together with what happened before it.
Happened(event) == lastTwo' = <<lastTwo[2], event>>

\* The component mounts: its effects run for the first time.
Mount ==
    /\ ~mounted
    /\ mounted' = TRUE
    /\ isEditing' = AutoEditEffect(isEditing, currentName, metadataName)
    /\ inputValue' = currentName
    /\ hasChanges' = FALSE
    /\ Happened("mount")
    /\ UNCHANGED <<hook, catalog, feedback, currentName, metadataName, saveAwaiting, deliverable>>

\* A click on the title.
TitleClick ==
    /\ mounted /\ ~isEditing
    /\ isEditing' = TRUE
    /\ Happened("click")
    /\ UNCHANGED <<hook, catalog, feedback, mounted, currentName, metadataName, inputValue,
                   hasChanges, saveAwaiting, deliverable>>

handleInputChange(newValue) ==
    /\ mounted /\ isEditing
    /\ inputValue' = newValue
    /\ hasChanges' = (trim(newValue) # currentName /\ trim(newValue) # << >>)
    /\ Happened("input")
    /\ UNCHANGED <<hook, catalog, feedback, mounted, currentName, metadataName, isEditing,
                   saveAwaiting, deliverable>>

\* handleSave up to its await: nothing to save leaves the edit mode, a changed
\* name is handed to onSave, and the parent starts storing it.
handleSave ==
    /\ mounted /\ isEditing /\ ~saveAwaiting
    /\ LET trimmedValue == trim(inputValue)
       IN  IF trimmedValue = << >> \/ trimmedValue = currentName
           THEN /\ isEditing' = FALSE
                /\ inputValue' = currentName
                /\ hasChanges' = FALSE
                /\ Happened("unchanged")
                /\ UNCHANGED <<saveAwaiting, deliverable>>
           ELSE /\ saveAwaiting' = TRUE
                /\ deliverable' = trimmedValue
                /\ Happened("save")
                /\ UNCHANGED <<isEditing, inputValue, hasChanges>>
    /\ UNCHANGED <<hook, catalog, feedback, mounted, currentName, metadataName>>

\* onSave resolved: handleSave continues after its await.
OnSaveResolved ==
    /\ saveAwaiting
    /\ saveAwaiting' = FALSE
    /\ isEditing' = FALSE
    /\ hasChanges' = FALSE
    /\ Happened("resolved")
    /\ UNCHANGED <<hook, catalog, feedback, mounted, currentName, metadataName, inputValue,
                   deliverable>>

\* onSave rejected: the catch of handleSave only logs, and no new name arrives.
OnSaveRejected ==
    /\ saveAwaiting /\ deliverable # Undefined
    /\ saveAwaiting' = FALSE
    /\ deliverable' = Undefined
    /\ Happened("rejected")
    /\ UNCHANGED <<hook, catalog, feedback, mounted, currentName, metadataName, isEditing,
                   inputValue, hasChanges>>

\* The parent delivers the stored name as the currentName prop: the effects
\* that depend on currentName run again.
CurrentNameDelivered ==
    /\ mounted /\ deliverable # Undefined
    /\ currentName' = deliverable
    /\ deliverable' = Undefined
    /\ IF currentName' # currentName
       THEN /\ isEditing' = AutoEditEffect(isEditing, currentName', metadataName)
            /\ inputValue' = currentName'
            /\ hasChanges' = FALSE
       ELSE UNCHANGED <<isEditing, inputValue, hasChanges>>
    /\ Happened("delivered")
    /\ UNCHANGED <<hook, catalog, feedback, mounted, metadataName, saveAwaiting>>

nameCancel ==
    /\ mounted /\ isEditing
    /\ inputValue' = currentName
    /\ isEditing' = FALSE
    /\ hasChanges' = FALSE
    /\ Happened("cancel")
    /\ UNCHANGED <<hook, catalog, feedback, mounted, currentName, metadataName,
                   saveAwaiting, deliverable>>

NameInit ==
    /\ HookIdle
    /\ CatalogInit
    /\ FeedbackInit({NoContext}, {FALSE})
    /\ NameFieldInit(InitialNames, MetadataNames)

NameNext ==
    \/ Mount
    \/ TitleClick
    \/ \E newValue \in TypedValues : handleInputChange(newValue)
    \/ handleSave
    \/ OnSaveResolved
    \/ OnSaveRejected
    \/ CurrentNameDelivered
    \/ nameCancel

NameSpec == NameInit /\ [][NameNext]_vars

\* C29: once a save of a changed name has resolved and the new name has been
\* delivered, in either order and with nothing else in between, the component
\* is not in edit mode: the automatic edit mode belongs to the mount only.
C29_NotEditingAfterSave ==
    lastTwo \in {<<"resolved", "delivered">>, <<"delivered", "resolved">>} => ~isEditing

\* ---------------------------------------------------------------------------
\* Feedback: FeedbackModal.handleSubmit and the route POST /api/feedback
\* ---------------------------------------------------------------------------

\* The most submissions that reach Langfuse or are taken for a success.
MaxSubmits == 2

\* The session contexts: none, a complete one, one whose user is not known yet.
FeedbackContexts ==
    { NoContext,
      [present |-> TRUE, username |-> "alice", projectName |-> "proj", sessionName |-> "sess"],
      [present |-> TRUE, username |-> "", projectName |-> "proj", sessionName |-> "sess"] }

Comments == {"", "slow"}

\* The parent opens the modal.
OpenModal ==
    /\ ~open
    /\ open' = TRUE
    /\ UNCHANGED <<hook, catalog, nameField, feedbackContext, langfuse, comment,
                   includeTranscript, isSubmitting, error, submitPc, response, scores,
                   successCalls>>

\* The dialog is dismissed: it hands onOpenChange(false) to the parent.
DialogDismiss ==
    /\ open
    /\ open' = FALSE
    /\ UNCHANGED <<hook, catalog, nameField, feedbackContext, langfuse, comment,
                   includeTranscript, isSubmitting, error, submitPc, response, scores,
                   successCalls>>

setComment(text) ==
    /\ open
    /\ comment' = text
    /\ UNCHANGED <<hook, catalog, nameField, feedbackContext, langfuse, open,
                   includeTranscript, isSubmitting, error, submitPc, response, scores,
                   successCalls>>

setIncludeTranscript(checked) ==
    /\ open
    /\ includeTranscript' = checked
    /\ UNCHANGED <<hook, catalog, nameField, feedbackContext, langfuse, open, comment,
                   isSubmitting, error, submitPc, response, scores, successCalls>>

\* handleSubmit up to its fetch: the button is disabled while submitting.
handleSubmit ==
    /\ open /\ ~isSubmitting /\ submitPc = "idle"
    /\ scores < MaxSubmits /\ successCalls < MaxSubmits
    /\ IF ~feedbackContext.present
       THEN /\ error' = "Session context not available"
            /\ UNCHANGED <<isSubmitting, submitPc>>
       ELSE /\ isSubmitting' = TRUE
            /\ error' = "<null>"
            /\ submitPc' = "posted"
    /\ UNCHANGED <<hook, catalog, nameField, feedbackContext, langfuse, open, comment,
                   includeTranscript, response, scores, successCalls>>

\* The body handleSubmit posts, as far as the route validates it.
RequestBody ==
    [value |-> 1, username |-> feedbackContext.username,
     projectName |-> feedbackContext.projectName, sessionName |-> feedbackContext.sessionName]

\* The route: validation, the Langfuse client, the score, and the catch around
\* all of it.
POST(throws) ==
    /\ submitPc = "posted"
    /\ LET body == RequestBody
       IN  IF throws
           THEN /\ response' = [ok |-> FALSE, error |-> "Internal server error",
                                recorded |-> FALSE, status |-> 500]
                /\ UNCHANGED scores
           ELSE IF body.username = "" \/ body.projectName = "" \/ body.sessionName = ""
           THEN /\ response' = [ok |-> FALSE, error |-> "Missing required fields",
                                recorded |-> FALSE, status |-> 400]
                /\ UNCHANGED scores
           ELSE IF ~langfuse
           THEN /\ response' = [ok |-> TRUE, error |-> "", recorded |-> FALSE, status |-> 200]
                /\ UNCHANGED scores
           ELSE /\ scores' = scores + 1
                /\ response' = [ok |-> TRUE, error |-> "", recorded |-> TRUE, status |-> 200]
    /\ submitPc' = "answered"
    /\ UNCHANGED <<hook, catalog, nameField, feedbackContext, langfuse, open, comment,
                   includeTranscript, isSubmitting, error, successCalls>>

\* What handleSubmit does with a response whose ok is true.
OnOk ==
    /\ comment' = ""
    /\ includeTranscript' = FALSE
    /\ open' = FALSE
    /\ successCalls' = successCalls + 1
    /\ UNCHANGED error

\* fetch resolved: a response that is ok ends the submission, any other has
\* its body read first.
ResponseReceived ==
    /\ submitPc = "answered"
    /\ IF response.ok
       THEN /\ OnOk
            /\ isSubmitting' = FALSE
            /\ submitPc' = "idle"
            /\ response' = NoResponse
       ELSE /\ submitPc' = "errorBody"
            /\ UNCHANGED <<open, comment, includeTranscript, isSubmitting, error, response,
                           successCalls>>
    /\ UNCHANGED <<hook, catalog, nameField, feedbackContext, langfuse, scores>>

\* response.json() of a response that is not ok resolved: throw, catch, finally.
FeedbackErrorRead ==
    /\ submitPc = "errorBody"
    /\ error' = (IF response.error # "" THEN response.error ELSE "Failed to submit feedback")
    /\ isSubmitting' = FALSE
    /\ submitPc' = "idle"
    /\ response' = NoResponse
    /\ UNCHANGED <<hook, catalog, nameField, feedbackContext, langfuse, open, comment,
                   includeTranscript, scores, successCalls>>

\* fetch rejected, before or after the route ran: catch, finally.
FetchRejected ==
    /\ submitPc \in {"posted", "answered"}
    /\ error' = "Failed to fetch"
    /\ isSubmitting' = FALSE
    /\ submitPc' = "idle"
    /\ response' = NoResponse
    /\ UNCHANGED <<hook, catalog, nameField, feedbackContext, langfuse, open, comment,
                   includeTranscript, scores, successCalls>>

\* handleCancel of the modal: its button is disabled while submitting.
feedbackCancel ==
    /\ open /\ ~isSubmitting
    /\ comment' = ""
    /\ includeTranscript' = FALSE
    /\ error' = "<null>"
    /\ open' = FALSE
    /\ UNCHANGED <<hook, catalog, nameField, feedbackContext, langfuse, isSubmitting,
                   submitPc, response, scores, successCalls>>

FeedbackSpecInit ==
    /\ HookIdle
    /\ CatalogInit
    /\ NameFieldInit({<< >>}, {<< >>})
    /\ FeedbackInit(FeedbackContexts, BOOLEAN)

FeedbackNext ==
    \/ OpenModal
    \/ DialogDismiss
    \/ \E text \in Comments : setComment(text)
    \/ \E checked \in BOOLEAN : setIncludeTranscript(checked)
    \/ handleSubmit
    \/ \E throws \in BOOLEAN : POST(throws)
    \/ ResponseReceived
    \/ FeedbackErrorRead
    \/ FetchRejected
    \/ feedbackCancel

FeedbackSpec == FeedbackSpecInit /\ [][FeedbackNext]_vars

\* C30: handleSubmit closes the modal, resets the form and calls onSubmitSuccess
\* only for an answer of the route that recorded a score; a submission whose
\* answer recorded nothing ends with the modal as open as it was and an error.
C30_ClosesOnlyWhenRecorded ==
    [][submitPc # "idle" /\ submitPc' = "idle" /\ response # NoResponse /\ ~response.recorded
           => /\ open' = open
              /\ successCalls' = successCalls
              /\ error' # "<null>"]_vars

====
